---- MODULE Spec2Model ----
(***************************************************************************)
(* dogonnet / doggonet: Datadog dashboards from Jsonnet templates.         *)
(*                                                                         *)
(* The model covers the command line (src/doggonet/cli/main.py), the       *)
(* loader and template compiler (src/doggonet/utils/jsonnet.py), the       *)
(* example validator (scripts/validate_examples.py) and the dashboard      *)
(* client.  The client module (doggonet/client/dashboard.py) is not part   *)
(* of the source tree; its operations are modelled from the specification  *)
(* (section 4.4) and from tests/unit/test_client.py.                       *)
(*                                                                         *)
(* One process runs one command.  A command is one action; the answers of  *)
(* the remote API to the requests it issues are chosen nondeterministically*)
(* among the answers the remote side can give in its current state.        *)
(***************************************************************************)
EXTENDS Integers, Sequences, FiniteSets, TLC

\* ------------------------------------------------------------------ bounds

\* Number of dashboard ids the remote side can hand out.
MaxIds == 2

\* Longest widgets list of a validated document.
MaxWidgets == 2

\* ------------------------------------------------------------- JSON values

\* Python's None for optional strings (arguments, environment variables).
None == "<None>"

JNull == [t |-> "null", s |-> "", items |-> <<>>, fields |-> <<>>]

JStr(x) == [t |-> "str", s |-> x, items |-> <<>>, fields |-> <<>>]

JNum(x) == [t |-> "num", s |-> x, items |-> <<>>, fields |-> <<>>]

JList(xs) == [t |-> "list", s |-> "", items |-> xs, fields |-> <<>>]

JDict(f) == [t |-> "dict", s |-> "", items |-> <<>>, fields |-> f]

\* Python truthiness of a JSON value (`if dashboard_id and ...`).
Truthy(v) ==
  CASE v.t = "null" -> FALSE
    [] v.t = "str"  -> v.s # ""
    [] v.t = "num"  -> v.s # "0"
    [] v.t = "list" -> v.items # <<>>
    [] OTHER        -> DOMAIN v.fields # {}

\* dict.get(key): None when the key is absent.
dict_get(d, key) == IF key \in DOMAIN d THEN d[key] ELSE JNull

\* dict.get(key, default) for a string default.
dict_get_or(d, key, default) == IF key \in DOMAIN d THEN d[key] ELSE JStr(default)

\* str(value) as used in an f-string or a URL.
PyStr(v) ==
  CASE v.t = "null" -> "None"
    [] v.t = "str"  -> v.s
    [] v.t = "num"  -> v.s
    [] v.t = "list" -> "[...]"
    [] OTHER        -> "{...}"

EmptyDict == [k \in {} |-> JNull]

\* -------------------------------------------------------------- documents

IdName == <<"d1", "d2", "d3", "d4">>

Ids == {IdName[i] : i \in 1..MaxIds}

Titles == {"A", "B"}

ServerManagedKeys == {"id", "created_at", "modified_at", "author_handle"}

\* A value for each server-managed key other than id.
ServerValue(k) == IF k = "author_handle" THEN JStr("user@example.com") ELSE JStr("timestamp")

IdChoices == {JNull, JStr("")} \cup {JStr(i) : i \in Ids}

\* The document with the given optional id, optional title and the given
\* server-managed keys (has_id / has_title say whether the key is present).
MakeDoc(has_id, idv, has_title, title, S) ==
  LET keys == (IF has_id THEN {"id"} ELSE {}) \cup (IF has_title THEN {"title"} ELSE {}) \cup S
  IN [k \in keys |-> IF k = "id" THEN idv ELSE IF k = "title" THEN JStr(title) ELSE ServerValue(k)]

DocsOver(SS) ==
  {MakeDoc(hi, idv, ht, title, S) :
     hi \in BOOLEAN, idv \in IdChoices, ht \in BOOLEAN, title \in Titles, S \in SS}

\* Documents handed to the client operations directly: every subset of the
\* server-managed keys.
AllDocs == DocsOver(SUBSET (ServerManagedKeys \ {"id"}))

\* Documents found in the files given to push.
FileDocs == DocsOver({{}, ServerManagedKeys \ {"id"}})

\* ------------------------------------------------------- the remote service

NoDash == "<none>"

\* The remote side: the title of the dashboard stored under each id.
RemoteStates == [Ids -> Titles \cup {NoDash}]

Sites == {"datadoghq.com", "datadoghq.eu", "us5.datadoghq.com"}

\* base URL of the form https://api.<site>/api
BaseUrl(site) == "https://api." \o site \o "/api"

CollectionUrl(base_url) == base_url \o "/v1/dashboard"

SingleUrl(base_url, id) == base_url \o "/v1/dashboard/" \o id

NoOutcome == [kind |-> "none", status |-> 0, newid |-> ""]

Response(status) == [kind |-> "response", status |-> status, newid |-> ""]

Created(id) == [kind |-> "response", status |-> 200, newid |-> id]

NetworkFailure == [kind |-> "network_error", status |-> 0, newid |-> ""]

NoRequest == [method |-> "", url |-> "", has_json |-> FALSE, json |-> EmptyDict]

\* Whether the URL is the dashboard collection endpoint.
IsCollection(url) == \E site \in Sites : url = CollectionUrl(BaseUrl(site))

\* The stored dashboard id a single-dashboard URL addresses ("" for any other URL).
ResourceOf(url) ==
  LET m == {i \in Ids : \E site \in Sites : url = SingleUrl(BaseUrl(site), i)}
  IN IF m = {} THEN "" ELSE CHOOSE i \in m : TRUE

HasTitle(payload) ==
  "title" \in DOMAIN payload /\ payload["title"].t = "str" /\ payload["title"].s \in Titles

\* The answers the remote side can give to a request in state r: the answer
\* of a working service, a server fault, or no answer at all.
Answers(r, req) ==
  LET id == ResourceOf(req.url)
      there == id # "" /\ r[id] # NoDash
      free == {i \in Ids : r[i] = NoDash}
      working ==
        CASE req.method = "GET" /\ IsCollection(req.url) -> {Response(200)}
          [] req.method = "GET" -> {Response(IF there THEN 200 ELSE 404), Response(204)}
          [] req.method = "POST" ->
               IF ~HasTitle(req.json) THEN {Response(400)}
               ELSE IF free = {} THEN {Response(403)}
               ELSE {Created(i) : i \in free}
          [] req.method = "PUT" ->
               IF ~there THEN {Response(404)}
               ELSE IF ~HasTitle(req.json) THEN {Response(400)}
               ELSE {Response(200)}
          [] OTHER -> {Response(IF there THEN 200 ELSE 404)}
  IN working \cup {Response(500), NetworkFailure}

\* The remote state after the request was answered with o.
ServerApply(r, req, o) ==
  LET id == ResourceOf(req.url)
  IN IF o.kind # "response" \/ o.status # 200 THEN r
     ELSE IF req.method = "POST" THEN [r EXCEPT ![o.newid] = req.json["title"].s]
     ELSE IF req.method = "PUT" THEN [r EXCEPT ![id] = req.json["title"].s]
     ELSE IF req.method = "DELETE" THEN [r EXCEPT ![id] = NoDash]
     ELSE r

\* The record the service returns for a stored dashboard.
RemoteRecord(id, title) ==
  MakeDoc(TRUE, JStr(id), TRUE, title, ServerManagedKeys \ {"id"})

\* ------------------------------------------------------------- the client

NoEnv == [DD_API_KEY |-> None, DD_APP_KEY |-> None, DD_SITE |-> None]

NoClient == [ok |-> FALSE, error |-> "", api_key |-> None, app_key |-> None,
             site |-> None, base_url |-> None]

\* Variant of ResolveCredential: the environment wins over the argument.
ResolveCredential_EnvFirst(arg, envval) == IF envval # None THEN envval ELSE arg

\* One credential: the explicit argument first, then the environment.
ResolveCredential(arg, envval) == IF arg # None THEN arg ELSE envval

\* The site: argument, else DD_SITE, else the default.
ResolveSite(site, env) ==
  IF site # None THEN site ELSE IF env.DD_SITE # None THEN env.DD_SITE ELSE "datadoghq.com"

\* Variant of DatadogDashboardClient: the construction fails only when both
\* keys are unresolved.
DatadogDashboardClient_BothMissing(api_key, app_key, site, env) ==
  LET api == ResolveCredential(api_key, env.DD_API_KEY)
      app == ResolveCredential(app_key, env.DD_APP_KEY)
      s == ResolveSite(site, env)
  IN IF api = None /\ app = None
     THEN [NoClient EXCEPT !.error = "MissingCredentialsError"]
     ELSE [ok |-> TRUE, error |-> "", api_key |-> api, app_key |-> app,
           site |-> s, base_url |-> BaseUrl(s)]

\* DatadogDashboardClient(api_key, app_key, site): no request is issued.
DatadogDashboardClient(api_key, app_key, site, env) ==
  LET api == ResolveCredential(api_key, env.DD_API_KEY)
      app == ResolveCredential(app_key, env.DD_APP_KEY)
      s == ResolveSite(site, env)
  IN IF api = None \/ app = None
     THEN [NoClient EXCEPT !.error = "MissingCredentialsError"]
     ELSE [ok |-> TRUE, error |-> "", api_key |-> api, app_key |-> app,
           site |-> s, base_url |-> BaseUrl(s)]

\* What a request raises, given its answer: NetworkError on a transport
\* failure, ApiError on a non-2xx response.
Raised(o) ==
  IF o.kind = "network_error" THEN "NetworkError"
  ELSE IF o.status < 200 \/ o.status >= 300 THEN "ApiError"
  ELSE ""

\* Variant of StripServerFields: only the two fields test_create_dashboard
\* looks at are removed.
StripServerFields_TestedOnly(document) ==
  [k \in DOMAIN document \ {"id", "created_at"} |-> document[k]]

\* The server-managed fields removed from an outgoing payload.
StripServerFields(document) ==
  [k \in DOMAIN document \ ServerManagedKeys |-> document[k]]

Call(op, id, document, request, o, raised, returned, body) ==
  [op |-> op, id |-> id, document |-> document, request |-> request, outcome |-> o,
   raised |-> raised, returned |-> returned, body |-> body]

ExistsRequest(client, id) ==
  [method |-> "GET", url |-> SingleUrl(client.base_url, id), has_json |-> FALSE, json |-> EmptyDict]

\* Variant of ExistsResult: any response that is not an error status counts.
ExistsResult_AnySuccess(o) == o.kind = "response" /\ o.status < 400

\* dashboard_exists(id): true iff the status is exactly 200; any error is a
\* false result.
ExistsResult(o) == o.kind = "response" /\ o.status = 200

dashboard_exists(client, id, o) ==
  Call("dashboard_exists", id, EmptyDict, ExistsRequest(client, id), o, "",
       IF ExistsResult(o) THEN "True" ELSE "False", EmptyDict)

\* get_dashboard(id): the full remote record.
get_dashboard(client, id, r, o) ==
  LET raised == IF Raised(o) # "" THEN Raised(o)
                ELSE IF o.status # 200 THEN "JSONDecodeError" ELSE ""
  IN Call("get_dashboard", id, EmptyDict, ExistsRequest(client, id), o, raised,
          IF raised = "" THEN "dict" ELSE "",
          IF raised = "" THEN RemoteRecord(id, r[id]) ELSE EmptyDict)

CreateRequest(client, document) ==
  [method |-> "POST", url |-> CollectionUrl(client.base_url), has_json |-> TRUE,
   json |-> StripServerFields(document)]

\* create_dashboard(document): POST of the stripped document.
create_dashboard(client, document, o) ==
  LET req == CreateRequest(client, document)
  IN Call("create_dashboard", "", document, req, o, Raised(o),
          IF Raised(o) = "" THEN "dict" ELSE "",
          IF Raised(o) = "" THEN RemoteRecord(o.newid, req.json["title"].s) ELSE EmptyDict)

\* Variant of UpdateRequest: the endpoint is taken from the id inside the
\* document when it has one.
UpdateRequest_DocumentId(client, id, document) ==
  [method |-> "PUT",
   url |-> SingleUrl(client.base_url,
                     IF "id" \in DOMAIN document THEN PyStr(document["id"]) ELSE id),
   has_json |-> TRUE,
   json |-> [k \in DOMAIN document \ ServerManagedKeys |-> document[k]]]

UpdateRequest(client, id, document) ==
  [method |-> "PUT", url |-> SingleUrl(client.base_url, id), has_json |-> TRUE,
   json |-> StripServerFields(document)]

\* update_dashboard(id, document): PUT of the stripped document to the
\* endpoint of id.
update_dashboard(client, id, document, o) ==
  LET req == UpdateRequest(client, id, document)
  IN Call("update_dashboard", id, document, req, o, Raised(o),
          IF Raised(o) = "" THEN "dict" ELSE "",
          IF Raised(o) = "" THEN RemoteRecord(id, req.json["title"].s) ELSE EmptyDict)

\* delete_dashboard(id)
delete_dashboard(client, id, o) ==
  Call("delete_dashboard", id, EmptyDict,
       [method |-> "DELETE", url |-> SingleUrl(client.base_url, id), has_json |-> FALSE,
        json |-> EmptyDict],
       o, Raised(o), IF Raised(o) = "" THEN "dict" ELSE "", EmptyDict)

\* list_dashboards(): GET of the collection.
list_dashboards(client, o) ==
  Call("list_dashboards", "", EmptyDict,
       [method |-> "GET", url |-> CollectionUrl(client.base_url), has_json |-> FALSE,
        json |-> EmptyDict],
       o, Raised(o), IF Raised(o) = "" THEN "list" ELSE "", EmptyDict)

\* An optional argument: None, or the list or mapping given. A mapping of
\* external variables is the sequence of its (key, value) pairs.
NoneArg == [given |-> FALSE, items |-> <<>>]

Given(items) == [given |-> TRUE, items |-> items]

\* `x or []`, `x or {}`: None and the empty value both give the empty one.
OrEmpty(arg) == IF arg.given THEN arg.items ELSE <<>>

RECURSIVE Count(_, _)
Count(x, xs) ==
  IF xs = <<>> THEN 0 ELSE (IF Head(xs) = x THEN 1 ELSE 0) + Count(x, Tail(xs))

\* The longest list of metric names the service returns.
MaxMetrics == 3

\* ord(c) of the characters of the metric names; a name is the sequence of
\* its characters.
Ord(c) ==
  CASE c = "." -> 46
    [] c = "S" -> 83
    [] c = "a" -> 97
    [] OTHER -> 115

\* a <= b for two strings: Python compares them character by character.
RECURSIVE StrLeq(_, _)
StrLeq(a, b) ==
  IF a = <<>> THEN TRUE
  ELSE IF b = <<>> THEN FALSE
  ELSE IF Ord(Head(a)) # Ord(Head(b)) THEN Ord(Head(a)) < Ord(Head(b))
  ELSE StrLeq(Tail(a), Tail(b))

\* `search in name`: search is a substring of name.
Contains(search, name) ==
  \E i \in 1..(Len(name) - Len(search) + 1) : SubSeq(name, i, i + Len(search) - 1) = search

RECURSIVE Insert(_, _)
Insert(x, ys) ==
  IF ys = <<>> THEN <<x>>
  ELSE IF StrLeq(x, Head(ys)) THEN <<x>> \o ys
  ELSE <<Head(ys)>> \o Insert(x, Tail(ys))

\* sorted(names)
RECURSIVE sorted(_)
sorted(names) == IF names = <<>> THEN <<>> ELSE Insert(Head(names), sorted(Tail(names)))

\* The names kept: all without a search, else those containing it.
Filtered(search, names) ==
  IF search.given THEN SelectSeq(names, LAMBDA m : Contains(search.items, m)) ELSE names

\* Variant of MetricNamesReturned: the filtered names are returned in the
\* service's order.
MetricNamesReturned_Unsorted(search, names) == Filtered(search, names)

\* What list_metrics returns for the names the service sent.
MetricNamesReturned(search, names) == sorted(Filtered(search, names))

\* The metric names known to the service.
MetricNames == {<<"s", "a">>, <<"a", "s">>, <<"S", "a">>, <<"a">>}

\* The lists of names a metrics request may be answered with, in any order
\* and with repetitions.
MetricLists == UNION {[1..n -> MetricNames] : n \in 0..MaxMetrics}

\* The search arguments: None, "", "s", "S", "sa".
SearchChoices == {NoneArg, Given(<<>>), Given(<<"s">>), Given(<<"S">>), Given(<<"s", "a">>)}

NoMetrics == [search |-> NoneArg, server |-> <<>>, result |-> <<>>]

\* list_metrics(search): GET of the metrics endpoint, answered with names.
list_metrics(client, search, names, o) ==
  [call |-> Call("list_metrics", "", EmptyDict,
                 [method |-> "GET", url |-> client.base_url \o "/v1/metrics", has_json |-> FALSE,
                  json |-> EmptyDict],
                 o, Raised(o), IF Raised(o) = "" THEN "list" ELSE "", EmptyDict),
   metrics |-> [search |-> search,
                server |-> IF Raised(o) = "" THEN names ELSE <<>>,
                result |-> IF Raised(o) = "" THEN MetricNamesReturned(search, names) ELSE <<>>]]

\* ------------------------------------------------- loader and compiler

NoSource == [suffix |-> "", kind |-> "none", doc |-> EmptyDict]

\* The longest include-path list a caller passes.
MaxPaths == 2

\* is_jsonnet_file: the suffix alone decides.
is_jsonnet_file(suffix) == suffix \in {".jsonnet", ".libsonnet"}

\* str(source_file)
PathOf(source_file) == "dashboard" \o source_file.suffix

\* Path(doggonet.__file__).parent.parent
parent_dir == "/site-packages"

\* The machine compile_jsonnet runs on: whether the package can be imported
\* and its parent directory exists, whether _jsonnet can be imported, and
\* whether a jsonnet executable is on the PATH.
NoTools == [package_parent |-> FALSE, in_process |-> FALSE, executable |-> FALSE]

Machines == [package_parent : BOOLEAN, in_process : BOOLEAN, executable : BOOLEAN]

\* What an evaluator answers: its output text (JSON or not), or a diagnostic.
NoEvaluation == [status |-> "none", valid |-> FALSE, kind |-> "none", doc |-> EmptyDict, diag |-> ""]

Output(kind, doc) == [status |-> "output", valid |-> TRUE, kind |-> kind, doc |-> doc, diag |-> ""]

BadOutput == [status |-> "output", valid |-> FALSE, kind |-> "none", doc |-> EmptyDict, diag |-> ""]

Diagnostic(text) == [status |-> "error", valid |-> FALSE, kind |-> "none", doc |-> EmptyDict, diag |-> text]

\* The evaluator is an external program: a file that is not a template gets a
\* static error; a template gets its value as JSON, or a runtime error, or
\* (from a faulty evaluator) output that is not JSON.
Evaluations(source_file) ==
  IF source_file.kind = "invalid"
  THEN {Diagnostic("STATIC ERROR: syntax error")}
  ELSE {Output(IF source_file.kind = "template" THEN "dict" ELSE source_file.kind, source_file.doc),
        Diagnostic("RUNTIME ERROR: undefined external variable: env"),
        BadOutput}

\* What compile_jsonnet and load_dashboard leave behind: the value returned
\* or the exception raised, and how it came about.
NotLoaded ==
  [parser |-> "none", tools |-> NoTools, evaluator |-> "none", evaluation |-> NoEvaluation,
   argv |-> <<>>, ext_vars |-> <<>>, jpathdir |-> <<>>, caller_jpathdir |-> NoneArg,
   raised |-> "", message |-> "", kind |-> "none", doc |-> EmptyDict]

\* json.loads(text): the value, or JSONDecodeError.
json_loads(text) ==
  IF text.valid
  THEN [raised |-> "", message |-> "", kind |-> text.kind, doc |-> text.doc]
  ELSE [raised |-> "JSONDecodeError", message |-> "Expecting value: line 1 column 1 (char 0)",
        kind |-> "none", doc |-> EmptyDict]

\* Variant of IncludePaths: the package's parent directory is put in front
\* without looking for it in the caller's list.
IncludePaths_Always(jpathdir, tools) ==
  IF tools.package_parent THEN <<parent_dir>> \o OrEmpty(jpathdir) ELSE OrEmpty(jpathdir)

\* The include paths: the caller's, with the package's parent directory in
\* front when it exists and is not among them. A new list is built.
IncludePaths(jpathdir, tools) ==
  IF tools.package_parent /\ Count(parent_dir, OrEmpty(jpathdir)) = 0
  THEN <<parent_dir>> \o OrEmpty(jpathdir)
  ELSE OrEmpty(jpathdir)

\* Variant of ExtStrFlags: the flag carries the key without its value.
RECURSIVE ExtStrFlags_KeyOnly(_)
ExtStrFlags_KeyOnly(items) ==
  IF items = <<>> THEN <<>>
  ELSE <<"--ext-str", Head(items)[1]>> \o ExtStrFlags_KeyOnly(Tail(items))

\* cmd.extend(["--ext-str", f"{key}={value}"]) for each external variable.
RECURSIVE ExtStrFlags(_)
ExtStrFlags(items) ==
  IF items = <<>> THEN <<>>
  ELSE <<"--ext-str", Head(items)[1] \o "=" \o Head(items)[2]>> \o ExtStrFlags(Tail(items))

\* cmd.extend(["-J", str(jpath)]) for each include path.
RECURSIVE JFlags(_)
JFlags(paths) ==
  IF paths = <<>> THEN <<>> ELSE <<"-J", Head(paths)>> \o JFlags(Tail(paths))

\* The command line of the external compiler.
CommandLine(source_file, ext_vars, paths) ==
  <<"jsonnet", PathOf(source_file)>> \o ExtStrFlags(OrEmpty(ext_vars)) \o JFlags(paths)

CompilerNotFound ==
  "Jsonnet compiler not found. Install with: pip install jsonnet\n"
  \o "Or install the jsonnet CLI from: https://github.com/google/go-jsonnet"

\* Variant of CliError: a missing executable is reported as a failed compilation.
CliError_NotFoundAsFailed(exception, detail) ==
  IF exception = "JSONDecodeError" THEN "Invalid JSON output from Jsonnet: " \o detail
  ELSE "Jsonnet compilation failed:\n" \o detail

\* Variant of CliError: the compiler's stderr is left out of the message.
CliError_NoStderr(exception, detail) ==
  CASE exception = "FileNotFoundError" -> CompilerNotFound
    [] exception = "CalledProcessError" -> "Jsonnet compilation failed"
    [] OTHER -> "Invalid JSON output from Jsonnet: " \o detail

\* The RuntimeError raised for an exception of the external invocation.
CliError(exception, detail) ==
  CASE exception = "FileNotFoundError" -> CompilerNotFound
    [] exception = "CalledProcessError" -> "Jsonnet compilation failed:\n" \o detail
    [] OTHER -> "Invalid JSON output from Jsonnet: " \o detail

\* The first try block: _jsonnet.evaluate_file and json.loads. Only
\* ImportError is caught there, so the evaluator's RuntimeError and a
\* JSONDecodeError leave compile_jsonnet as they are.
EvaluateInProcess(ev) ==
  IF ev.status = "error"
  THEN [raised |-> "RuntimeError", message |-> ev.diag, kind |-> "none", doc |-> EmptyDict]
  ELSE json_loads(ev)

\* The second try block: subprocess.run(cmd, check=True) and json.loads, each
\* exception turned into a RuntimeError.
EvaluateExternal(tools, ev) ==
  IF ~tools.executable
  THEN [raised |-> "RuntimeError", message |-> CliError("FileNotFoundError", ""),
        kind |-> "none", doc |-> EmptyDict]
  ELSE IF ev.status = "error"
  THEN [raised |-> "RuntimeError", message |-> CliError("CalledProcessError", ev.diag),
        kind |-> "none", doc |-> EmptyDict]
  ELSE IF json_loads(ev).raised # ""
  THEN [raised |-> "RuntimeError", message |-> CliError("JSONDecodeError", json_loads(ev).message),
        kind |-> "none", doc |-> EmptyDict]
  ELSE json_loads(ev)

\* compile_jsonnet(source_file, ext_vars, jpathdir) on a machine with the
\* given tools, ev being what the evaluator used answers.
compile_jsonnet(source_file, ext_vars, jpathdir, tools, ev) ==
  LET paths == IncludePaths(jpathdir, tools)
      result == IF tools.in_process THEN EvaluateInProcess(ev) ELSE EvaluateExternal(tools, ev)
  IN [parser |-> "compiler",
      tools |-> tools,
      evaluator |-> IF tools.in_process THEN "_jsonnet" ELSE IF tools.executable THEN "jsonnet" ELSE "none",
      evaluation |-> IF tools.in_process \/ tools.executable THEN ev ELSE NoEvaluation,
      argv |-> IF tools.in_process THEN <<>> ELSE CommandLine(source_file, ext_vars, paths),
      ext_vars |-> IF tools.in_process THEN OrEmpty(ext_vars) ELSE <<>>,
      jpathdir |-> IF tools.in_process THEN paths ELSE <<>>,
      caller_jpathdir |-> jpathdir,
      raised |-> result.raised, message |-> result.message,
      kind |-> result.kind, doc |-> result.doc]

\* The text of a file: JSON when it holds a JSON value.
FileText(source_file) ==
  [status |-> "output", valid |-> source_file.kind \in {"dict", "non_dict"},
   kind |-> source_file.kind, doc |-> source_file.doc, diag |-> ""]

\* json.load(f): the parsed value, or JSONDecodeError.
json_load(source_file) ==
  LET result == json_loads(FileText(source_file))
  IN [NotLoaded EXCEPT !.parser = "json", !.raised = result.raised, !.message = result.message,
                       !.kind = result.kind, !.doc = result.doc]

\* Variant of load_dashboard: the suffix is compared without regard to case.
load_dashboard_AnyCase(file_path, tools, ev) ==
  IF is_jsonnet_file(file_path.suffix) \/ file_path.suffix = ".JSONNET"
  THEN compile_jsonnet(file_path, NoneArg, NoneArg, tools, ev)
  ELSE json_load(file_path)

\* load_dashboard(file_path)
load_dashboard(file_path, tools, ev) ==
  IF is_jsonnet_file(file_path.suffix)
  THEN compile_jsonnet(file_path, NoneArg, NoneArg, tools, ev)
  ELSE json_load(file_path)

\* The files given to push: a JSON file for every document, a file that does
\* not parse, a file holding a JSON list, and templates.
PushSources ==
  {[suffix |-> ".json", kind |-> "dict", doc |-> d] : d \in FileDocs}
  \cup {[suffix |-> sf, kind |-> "invalid", doc |-> EmptyDict] : sf \in {".json", ".jsonnet"}}
  \cup {[suffix |-> ".json", kind |-> "non_dict", doc |-> EmptyDict]}
  \cup {[suffix |-> ".jsonnet", kind |-> "template", doc |-> MakeDoc(FALSE, JNull, TRUE, "A", {})]}
  \cup {[suffix |-> ".json", kind |-> "missing", doc |-> EmptyDict]}

\* click.Path(exists=True): whether the SOURCE argument names an existing file.
PathExists(source_file) == source_file.kind # "missing"

\* The machines a command runs on and what the evaluator there may answer.
Toolchains(source_file) ==
  {[tools |-> t, ev |-> ev] : t \in Machines, ev \in Evaluations(source_file)}

\* The toolchains of push: every one for a template; for a JSON file, whose
\* loading consults none, a machine with the in-process evaluator.
PushToolchains(source_file) ==
  IF source_file.suffix = ".jsonnet"
  THEN Toolchains(source_file)
  ELSE {[tools |-> [package_parent |-> TRUE, in_process |-> TRUE, executable |-> FALSE],
         ev |-> CHOOSE ev \in Evaluations(source_file) : TRUE]}

\* The files given to load_dashboard: every suffix with every content (a
\* dashboard, a document that is no valid dashboard, a JSON list, a
\* template, neither JSON nor template).
LoadSources ==
  {[suffix |-> sf, kind |-> c.kind, doc |-> c.doc] :
     sf \in {".jsonnet", ".libsonnet", ".json", ".JSONNET", ".txt", ""},
     c \in {[kind |-> "dict", doc |-> MakeDoc(TRUE, JStr("d1"), TRUE, "A", {"created_at"})],
            [kind |-> "dict", doc |-> EmptyDict],
            [kind |-> "non_dict", doc |-> EmptyDict],
            [kind |-> "template", doc |-> MakeDoc(FALSE, JNull, TRUE, "A", {})],
            [kind |-> "invalid", doc |-> EmptyDict]}}

\* The templates given to compile_jsonnet.
CompileSources ==
  {[suffix |-> ".jsonnet", kind |-> "template", doc |-> MakeDoc(FALSE, JNull, TRUE, "A", {})],
   [suffix |-> ".jsonnet", kind |-> "invalid", doc |-> EmptyDict]}

\* The ext_vars arguments: None, {}, one variable, two.
ExtVarChoices ==
  {NoneArg, Given(<<>>), Given(<<<<"env", "prod">>>>),
   Given(<<<<"env", "prod">>, <<"region", "us-west">>>>)}

\* The jpathdir arguments: None and every list of at most MaxPaths paths, the
\* package's parent directory among them.
JpathChoices ==
  {NoneArg} \cup {Given(ps) : ps \in UNION {[1..n -> {parent_dir, "/project/lib"}] : n \in 0..MaxPaths}}

\* --------------------------------------------------------------- validator

\* The characters of the strings the model iterates over.
StrChars(x) ==
  CASE x = "" -> <<>>
    [] x = "ab" -> <<"a", "b">>
    [] OTHER -> <<x>>

RECURSIVE SetToSeq(_)
SetToSeq(S) ==
  IF S = {} THEN <<>>
  ELSE LET x == CHOOSE y \in S : TRUE IN <<x>> \o SetToSeq(S \ {x})

\* Whether enumerate(v) works: a number or None is not iterable (TypeError).
Iterable(v) == v.t \in {"list", "str", "dict"}

\* The elements enumerate(v) yields.
IterItems(v) ==
  CASE v.t = "list" -> v.items
    [] v.t = "str" -> [i \in 1..Len(StrChars(v.s)) |-> JStr(StrChars(v.s)[i])]
    [] v.t = "dict" -> [i \in 1..Cardinality(DOMAIN v.fields) |-> JStr(SetToSeq(DOMAIN v.fields)[i])]
    [] OTHER -> <<>>

\* Variant of WidgetErrorsFrom: no `continue` after the first check, so an
\* element that is not a mapping is reported for its definition as well.
RECURSIVE WidgetErrorsFrom_NoContinue(_, _, _)
WidgetErrorsFrom_NoContinue(items, i, filename) ==
  IF i > Len(items) THEN <<>>
  ELSE (IF items[i].t # "dict"
        THEN <<filename \o ": Widget " \o ToString(i - 1) \o " is not a dictionary">>
        ELSE <<>>)
       \o (IF items[i].t # "dict" \/ "definition" \notin DOMAIN items[i].fields
           THEN <<filename \o ": Widget " \o ToString(i - 1) \o " missing 'definition'">>
           ELSE <<>>)
       \o WidgetErrorsFrom_NoContinue(items, i + 1, filename)

\* The loop over the widgets, from the i-th element on (index i - 1).
RECURSIVE WidgetErrorsFrom(_, _, _)
WidgetErrorsFrom(items, i, filename) ==
  IF i > Len(items) THEN <<>>
  ELSE LET widget == items[i]
           e == IF widget.t # "dict"
                THEN <<filename \o ": Widget " \o ToString(i - 1) \o " is not a dictionary">>
                ELSE IF "definition" \notin DOMAIN widget.fields
                THEN <<filename \o ": Widget " \o ToString(i - 1) \o " missing 'definition'">>
                ELSE <<>>
       IN e \o WidgetErrorsFrom(items, i + 1, filename)

MissingField(dashboard, filename, field) ==
  IF field \notin DOMAIN dashboard
  THEN <<filename \o ": Missing required field '" \o field \o "'">>
  ELSE <<>>

\* The three required-field checks, each made whatever the others found.
RequiredFieldErrors(dashboard, filename) ==
  MissingField(dashboard, filename, "title")
  \o MissingField(dashboard, filename, "widgets")
  \o MissingField(dashboard, filename, "layout_type")

\* Variant of WidgetsTypeErrors: the value is read with .get(), so that an
\* absent widgets key fails the type check too.
WidgetsTypeErrors_Get(dashboard, filename) ==
  IF "widgets" \notin DOMAIN dashboard \/ dashboard["widgets"].t # "list"
  THEN <<filename \o ": 'widgets' must be a list">> ELSE <<>>

\* `if 'widgets' in dashboard and not isinstance(dashboard['widgets'], list)`
WidgetsTypeErrors(dashboard, filename) ==
  IF "widgets" \in DOMAIN dashboard /\ dashboard["widgets"].t # "list"
  THEN <<filename \o ": 'widgets' must be a list">> ELSE <<>>

\* `if 'layout_type' in dashboard and dashboard['layout_type'] not in [...]`
LayoutTypeErrors(dashboard, filename) ==
  IF "layout_type" \in DOMAIN dashboard
     /\ ~(dashboard["layout_type"].t = "str"
          /\ dashboard["layout_type"].s \in {"ordered", "grid"})
  THEN <<filename \o ": 'layout_type' must be 'ordered' or 'grid'">> ELSE <<>>

\* The widget loop, entered only when the document has a widgets key.
WidgetErrors(dashboard, filename) ==
  IF "widgets" \in DOMAIN dashboard
  THEN WidgetErrorsFrom(IterItems(dashboard["widgets"]), 1, filename)
  ELSE <<>>

\* validate_dashboard_json(dashboard, filename): the list of errors, or the
\* exception the loop over a non-iterable widgets value raises.
validate_dashboard_json(dashboard, filename) ==
  IF "widgets" \in DOMAIN dashboard /\ ~Iterable(dashboard["widgets"])
  THEN [raised |-> "TypeError", errors |-> <<>>]
  ELSE [raised |-> "",
        errors |-> RequiredFieldErrors(dashboard, filename)
                   \o WidgetsTypeErrors(dashboard, filename)
                   \o LayoutTypeErrors(dashboard, filename)
                   \o WidgetErrors(dashboard, filename)]

\* Widgets: not a mapping, no definition, a definition without a type, a
\* well-formed widget, and a group holding a malformed widget.
WidgetKinds ==
  {JStr("x"),
   JDict(EmptyDict),
   JDict("definition" :> JDict(EmptyDict)),
   JDict("definition" :> JDict("type" :> JStr("note"))),
   JDict("definition" :> JDict(("type" :> JStr("group")) @@ ("widgets" :> JList(<<JStr("x")>>))))}

WidgetLists == UNION {[1..n -> WidgetKinds] : n \in 0..MaxWidgets}

WidgetsChoices ==
  {JNull, JNum("5"), JStr("ab"), JDict("a" :> JNum("1"))} \cup {JList(ws) : ws \in WidgetLists}

LayoutChoices == {JStr("ordered"), JStr("grid"), JStr("free")}

\* The documents handed to the validator: each of the three required keys
\* present or absent, with or without a key the validator does not look at.
ValidateDocs ==
  {[k \in (IF ht THEN {"title"} ELSE {}) \cup (IF hl THEN {"layout_type"} ELSE {})
          \cup (IF hw THEN {"widgets"} ELSE {}) \cup (IF hd THEN {"description"} ELSE {})
      |-> IF k = "title" THEN JStr("A") ELSE IF k = "layout_type" THEN l
          ELSE IF k = "widgets" THEN w ELSE JStr("B")] :
     ht \in BOOLEAN, hl \in BOOLEAN, l \in LayoutChoices, hw \in BOOLEAN, w \in WidgetsChoices,
     hd \in BOOLEAN}

\* ------------------------------------------------------- batch validation

\* The most .jsonnet files the examples directory holds.
MaxFiles == 2

\* A dashboard the validator accepts.
ValidDashboard ==
  ("title" :> JStr("A")) @@ ("layout_type" :> JStr("ordered"))
  @@ ("widgets" :> JList(<<JDict("definition" :> JDict("type" :> JStr("note")))>>))

\* The example files, each with what the evaluator answers for it: a valid
\* dashboard, a dashboard with validation errors, one whose widgets value is
\* a number, a template evaluating to a list, a file the evaluator rejects,
\* and a valid template for which the evaluator prints something that is
\* not JSON.
Examples ==
  {[source |-> [suffix |-> ".jsonnet", kind |-> "template", doc |-> d], ev |-> Output("dict", d)] :
     d \in {ValidDashboard, EmptyDict, [ValidDashboard EXCEPT !["widgets"] = JNum("5")]}}
  \cup {[source |-> [suffix |-> ".jsonnet", kind |-> "template", doc |-> EmptyDict],
         ev |-> Output("non_dict", EmptyDict)],
        [source |-> [suffix |-> ".jsonnet", kind |-> "invalid", doc |-> EmptyDict],
         ev |-> Diagnostic("STATIC ERROR: syntax error")],
        [source |-> [suffix |-> ".jsonnet", kind |-> "template", doc |-> ValidDashboard],
         ev |-> BadOutput]}

\* sorted(examples_dir.glob('*.jsonnet')): every list of at most MaxFiles files.
ExampleLists == UNION {[1..n -> Examples] : n \in 0..MaxFiles}

\* The machines the script runs on: the in-process evaluator, the
\* executable only, no evaluator.
BatchMachines ==
  {[package_parent |-> TRUE, in_process |-> TRUE, executable |-> FALSE],
   [package_parent |-> TRUE, in_process |-> FALSE, executable |-> TRUE],
   [package_parent |-> TRUE, in_process |-> FALSE, executable |-> FALSE]}

\* The body of the loop for one file: "success", "invalid" (validation
\* errors, `continue`) or "exception" (caught by `except Exception`), with
\* the errors added to all_errors. A compiled list has none of the required
\* keys, like the empty mapping.
ExampleOutcome(file, tools) ==
  LET result == compile_jsonnet(file.source, NoneArg, NoneArg, tools, file.ev)
      v == validate_dashboard_json(result.doc, "example.jsonnet")
  IN IF result.raised # ""
     THEN [outcome |-> "exception", errors |-> <<"example.jsonnet: " \o result.message>>]
     ELSE IF v.raised # ""
     THEN [outcome |-> "exception", errors |-> <<"example.jsonnet: " \o v.raised>>]
     ELSE IF v.errors # <<>>
     THEN [outcome |-> "invalid", errors |-> v.errors]
     ELSE [outcome |-> "success", errors |-> <<>>]

NoBatch ==
  [dir_exists |-> FALSE, tools |-> NoTools, files |-> <<>>, processed |-> <<>>,
   success_count |-> 0]

\* Variant of ExamplesLoop: the first file that fails ends the loop.
RECURSIVE ExamplesLoop_StopAtFailure(_, _, _)
ExamplesLoop_StopAtFailure(files, tools, acc) ==
  IF files = <<>> THEN acc
  ELSE LET o == ExampleOutcome(Head(files), tools)
           next == [processed |-> Append(acc.processed, o.outcome),
                    success_count |-> acc.success_count + (IF o.outcome = "success" THEN 1 ELSE 0),
                    all_errors |-> acc.all_errors \o o.errors]
       IN IF o.outcome = "success"
          THEN ExamplesLoop_StopAtFailure(Tail(files), tools, next)
          ELSE next

\* `for jsonnet_file in jsonnet_files`: the outcomes, success_count and
\* all_errors after the remaining files, from those so far.
RECURSIVE ExamplesLoop(_, _, _)
ExamplesLoop(files, tools, acc) ==
  IF files = <<>> THEN acc
  ELSE LET o == ExampleOutcome(Head(files), tools)
       IN ExamplesLoop(Tail(files), tools,
                       [processed |-> Append(acc.processed, o.outcome),
                        success_count |-> acc.success_count
                                          + (IF o.outcome = "success" THEN 1 ELSE 0),
                        all_errors |-> acc.all_errors \o o.errors])

\* main(): the status returned and what was counted on the way.
main(dir_exists, files, tools) ==
  LET end == ExamplesLoop(files, tools, [processed |-> <<>>, success_count |-> 0,
                                         all_errors |-> <<>>])
  IN IF ~dir_exists
     THEN [status |-> 1, message |-> "Error", processed |-> <<>>, success_count |-> 0,
           all_errors |-> <<>>]
     ELSE IF files = <<>>
     THEN [status |-> 0, message |-> "Warning", processed |-> <<>>, success_count |-> 0,
           all_errors |-> <<>>]
     ELSE [status |-> IF end.success_count = Len(files) THEN 0 ELSE 1,
           message |-> IF end.success_count = Len(files) THEN "ALL EXAMPLES VALID"
                       ELSE "VALIDATION FAILED",
           processed |-> end.processed, success_count |-> end.success_count,
           all_errors |-> end.all_errors]

\* ------------------------------------------------------------------ state

VARIABLES
  remote,     \* the dashboards stored by the remote service
  cmd,        \* the command this process ran ("idle": none yet)
  source,     \* the file the command was given
  opts,       \* the parameters of the command function, as click passes them
  env,        \* the process environment
  client,     \* the client the command constructed
  calls,      \* the client operations called, in order, each with its request
  exit_code,  \* 0 or 1 (-1: not exited)
  error,      \* the exception reported
  message,    \* what the command printed last
  report,     \* the error list a validation returned
  loaded,     \* what loading or compiling the file gave, and how
  metrics,    \* the metric names the service sent and those list_metrics returned
  batch       \* the example files of a batch validation and what became of each

vars == <<remote, cmd, source, opts, env, client, calls, exit_code, error, message, report,
          loaded, metrics, batch>>

NoOpts == [dry_run |-> FALSE, yes |-> FALSE, confirm |-> FALSE, dashboard_id |-> "",
           output |-> None, api_key |-> None, app_key |-> None, site |-> None,
           ext_vars |-> NoneArg, jpathdir |-> NoneArg]

Init ==
  /\ remote = [i \in Ids |-> NoDash]
  /\ cmd = "idle"
  /\ source = NoSource
  /\ opts = NoOpts
  /\ env = NoEnv
  /\ client = NoClient
  /\ calls = <<>>
  /\ exit_code = -1
  /\ error = ""
  /\ message = ""
  /\ report = <<>>
  /\ loaded = NotLoaded
  /\ metrics = NoMetrics
  /\ batch = NoBatch

\* The call c ends: every variable it leaves behind.
DoneBatch(c, src, o, e, cl, cs, code, err, msg, rep, r, ld, mt, bt) ==
  /\ cmd' = c
  /\ source' = src
  /\ opts' = o
  /\ env' = e
  /\ client' = cl
  /\ calls' = cs
  /\ exit_code' = code
  /\ error' = err
  /\ message' = msg
  /\ report' = rep
  /\ remote' = r
  /\ loaded' = ld
  /\ metrics' = mt
  /\ batch' = bt

\* A call of the client or of a command ends: no batch was run.
DoneMetrics(c, src, o, e, cl, cs, code, err, msg, rep, r, ld, mt) ==
  DoneBatch(c, src, o, e, cl, cs, code, err, msg, rep, r, ld, mt, NoBatch)

\* The command c ends after loading or compiling its file: what it leaves behind.
DoneLoaded(c, src, o, e, cl, cs, code, err, msg, rep, r, ld) ==
  DoneMetrics(c, src, o, e, cl, cs, code, err, msg, rep, r, ld, NoMetrics)

\* The command c, which loads no file, ends.
Done(c, src, o, e, cl, cs, code, err, msg, rep, r) ==
  DoneLoaded(c, src, o, e, cl, cs, code, err, msg, rep, r, NotLoaded)

\* click rejects the command line of c before the command function runs: it
\* prints a usage error and exits with status 2.
UsageError(c, src) ==
  Done(c, src, NoOpts, NoEnv, NoClient, <<>>, 2, "UsageError", "Usage", <<>>, remote)

\* The requests issued, in order: one per client operation called.
Requests == [i \in 1..Len(calls) |-> calls[i].request]

\* ---------------------------------------------------------- command line

\* A click option with envvar= and default=: the flag, else the environment
\* variable, else the default.
ClickOption(flag, envval, default) ==
  IF flag # None THEN flag ELSE IF envval # None THEN envval ELSE default

\* --api-key, --app-key and --site as the command function receives them.
ClickCredentials(o, flags, e) ==
  [o EXCEPT !.api_key = ClickOption(flags.api_key, e.DD_API_KEY, None),
            !.app_key = ClickOption(flags.app_key, e.DD_APP_KEY, None),
            !.site = ClickOption(flags.site, e.DD_SITE, "datadoghq.com")]

Flags(api_key, app_key, site) == [api_key |-> api_key, app_key |-> app_key, site |-> site]

Environ(api_key, app_key, site) == [DD_API_KEY |-> api_key, DD_APP_KEY |-> app_key, DD_SITE |-> site]

\* Command lines and environments: everything from the environment, flags
\* and environment mixed, and each way of leaving a key out.
CliInvocations ==
  {[flags |-> Flags(None, None, None), env |-> Environ("env_api", "env_app", None)],
   [flags |-> Flags("cli_api", None, None), env |-> Environ("env_api", "env_app", "datadoghq.eu")],
   [flags |-> Flags(None, None, None), env |-> Environ("env_api", None, None)],
   [flags |-> Flags(None, "cli_app", "datadoghq.eu"), env |-> Environ(None, None, None)],
   [flags |-> Flags(None, None, None), env |-> Environ(None, None, "datadoghq.eu")]}

\* Variant of NeedsExistenceCheck: the check is made for every document.
NeedsExistenceCheck_Always(dashboard_id) == TRUE

\* `dashboard_id and client.dashboard_exists(dashboard_id)`: the existence
\* check is made only for a truthy id.
NeedsExistenceCheck(dashboard_id) == Truthy(dashboard_id)

\* Variant of PushDecision: the result of the existence check is ignored.
PushDecision_IgnoresExists(dashboard_id, exists) ==
  IF Truthy(dashboard_id) THEN "update" ELSE "create"

\* Variant of PushDecision: the existence test is negated.
PushDecision_Inverted(dashboard_id, exists) ==
  IF Truthy(dashboard_id) /\ ~exists THEN "update" ELSE "create"

\* The branch push takes: update iff the id is truthy and the check said yes.
PushDecision(dashboard_id, exists) ==
  IF Truthy(dashboard_id) /\ exists THEN "update" ELSE "create"

\* Variant of PushAction: the dry run does not return before the write.
PushAction_NoReturn(dry_run, dashboard_id, exists) == PushDecision(dashboard_id, exists)

\* What push goes on to do: nothing under --dry-run (it returns), else the
\* branch taken.
PushAction(dry_run, dashboard_id, exists) ==
  IF dry_run THEN "none" ELSE PushDecision(dashboard_id, exists)

\* Variant of PushDashboardId: a document without an id is identified by its title.
PushDashboardId_TitleFallback(dashboard_json) ==
  IF "id" \in DOMAIN dashboard_json THEN dashboard_json["id"]
  ELSE dict_get(dashboard_json, "title")

\* dashboard_id = dashboard_json.get("id")
PushDashboardId(dashboard_json) == dict_get(dashboard_json, "id")

\* The write request of push.
PushWrite(cl, decision, dashboard_id, dashboard_json, o) ==
  IF decision = "update"
  THEN update_dashboard(cl, PyStr(dashboard_id), dashboard_json, o)
  ELSE create_dashboard(cl, dashboard_json, o)

\* The client a command constructs from its parameters.
CommandClient(o, e) == DatadogDashboardClient(o.api_key, o.app_key, o.site, e)

\* doggonet push SOURCE [--dry-run]
push ==
  /\ cmd = "idle"
  /\ \E src \in PushSources, dry_run \in BOOLEAN, cli \in CliInvocations :
     \E tc \in PushToolchains(src) :
       LET o == ClickCredentials([NoOpts EXCEPT !.dry_run = dry_run], cli.flags, cli.env)
           ld == load_dashboard(src, tc.tools, tc.ev)
           dashboard_json == ld.doc
           dashboard_id == PushDashboardId(dashboard_json)
           cl == CommandClient(o, cli.env)
       IN IF ~PathExists(src)
          THEN UsageError("push", src)
          ELSE IF ld.raised # ""
          THEN DoneLoaded("push", src, o, cli.env, NoClient, <<>>, 1, ld.raised, "Error", <<>>,
                          remote, ld)
          ELSE IF ld.kind # "dict"
          THEN DoneLoaded("push", src, o, cli.env, NoClient, <<>>, 1, "AttributeError", "Error",
                          <<>>, remote, ld)
          ELSE IF ~cl.ok
          THEN DoneLoaded("push", src, o, cli.env, cl, <<>>, 1, cl.error, "Error", <<>>, remote,
                          ld)
          ELSE \E o1 \in (IF NeedsExistenceCheck(dashboard_id)
                          THEN Answers(remote, ExistsRequest(cl, PyStr(dashboard_id)))
                          ELSE {NoOutcome}) :
                 LET checks == IF NeedsExistenceCheck(dashboard_id)
                               THEN <<dashboard_exists(cl, PyStr(dashboard_id), o1)>>
                               ELSE <<>>
                     exists == checks # <<>> /\ checks[1].returned = "True"
                     decision == PushDecision(dashboard_id, exists)
                 IN IF PushAction(dry_run, dashboard_id, exists) = "none"
                    THEN DoneLoaded("push", src, o, cli.env, cl, checks, 0, "",
                              IF decision = "update" THEN "Would UPDATE" ELSE "Would CREATE",
                              <<>>, remote, ld)
                    ELSE \E o2 \in Answers(remote,
                                           PushWrite(cl, PushAction(dry_run, dashboard_id, exists),
                                                     dashboard_id, dashboard_json,
                                                     NoOutcome).request) :
                           LET w == PushWrite(cl, PushAction(dry_run, dashboard_id, exists),
                                              dashboard_id, dashboard_json, o2)
                           IN DoneLoaded("push", src, o, cli.env, cl, checks \o <<w>>,
                                   IF w.raised = "" THEN 0 ELSE 1, w.raised,
                                   IF w.raised # "" THEN "Error"
                                   ELSE IF decision = "update" THEN "Updated" ELSE "Created",
                                   <<>>, ServerApply(remote, w.request, o2), ld)

\* doggonet fetch DASHBOARD_ID [-o FILE]
fetch ==
  /\ cmd = "idle"
  /\ \E id \in Ids, output \in {None, "out.json"}, cli \in CliInvocations :
       LET o == ClickCredentials([NoOpts EXCEPT !.dashboard_id = id, !.output = output],
                                 cli.flags, cli.env)
           cl == CommandClient(o, cli.env)
       IN IF ~cl.ok
          THEN Done("fetch", NoSource, o, cli.env, cl, <<>>, 1, cl.error, "Error", <<>>, remote)
          ELSE \E o1 \in Answers(remote, ExistsRequest(cl, id)) :
                 LET g == get_dashboard(cl, id, remote, o1)
                 IN Done("fetch", NoSource, o, cli.env, cl, <<g>>,
                         IF g.raised = "" THEN 0 ELSE 1, g.raised,
                         IF g.raised # "" THEN "Error"
                         ELSE IF output # None THEN "Saved" ELSE "JSON",
                         <<>>, remote)

\* Variant of DeleteProceeds: the answer to the prompt is not looked at.
DeleteProceeds_IgnoresAnswer(yes, confirm) == TRUE

\* `if not yes: if not click.confirm(...): return`: delete goes on with
\* --yes or a confirmed prompt.
DeleteProceeds(yes, confirm) == yes \/ confirm

\* doggonet delete DASHBOARD_ID [-y]; confirm is the user's answer to the prompt.
delete ==
  /\ cmd = "idle"
  /\ \E id \in Ids, yes \in BOOLEAN, confirm \in BOOLEAN, cli \in CliInvocations :
       LET o == ClickCredentials([NoOpts EXCEPT !.dashboard_id = id, !.yes = yes,
                                                !.confirm = ~yes /\ confirm],
                                 cli.flags, cli.env)
           cl == CommandClient(o, cli.env)
       IN IF ~cl.ok
          THEN Done("delete", NoSource, o, cli.env, cl, <<>>, 1, cl.error, "Error", <<>>, remote)
          ELSE \E o1 \in Answers(remote, ExistsRequest(cl, id)) :
                 LET g == get_dashboard(cl, id, remote, o1)
                 IN IF g.raised # ""
                    THEN Done("delete", NoSource, o, cli.env, cl, <<g>>, 1, g.raised, "Error",
                              <<>>, remote)
                    ELSE IF ~DeleteProceeds(yes, confirm)
                    THEN Done("delete", NoSource, o, cli.env, cl, <<g>>, 0, "", "Cancelled",
                              <<>>, remote)
                    ELSE \E o2 \in Answers(remote, delete_dashboard(cl, id, NoOutcome).request) :
                           LET d == delete_dashboard(cl, id, o2)
                           IN Done("delete", NoSource, o, cli.env, cl, <<g, d>>,
                                   IF d.raised = "" THEN 0 ELSE 1, d.raised,
                                   IF d.raised # "" THEN "Error" ELSE "Deleted",
                                   <<>>, ServerApply(remote, d.request, o2))

\* doggonet list
list ==
  /\ cmd = "idle"
  /\ \E cli \in CliInvocations :
       LET o == ClickCredentials(NoOpts, cli.flags, cli.env)
           cl == CommandClient(o, cli.env)
       IN IF ~cl.ok
          THEN Done("list", NoSource, o, cli.env, cl, <<>>, 1, cl.error, "Error", <<>>, remote)
          ELSE \E o1 \in Answers(remote, list_dashboards(cl, NoOutcome).request) :
                 LET l == list_dashboards(cl, o1)
                 IN Done("list", NoSource, o, cli.env, cl, <<l>>,
                         IF l.raised = "" THEN 0 ELSE 1, l.raised,
                         IF l.raised # "" THEN "Error" ELSE "Table", <<>>, remote)

\* Variant of CompileOutcome: a source that is not a Jsonnet file is compiled too.
CompileOutcome_NoSuffixCheck(source_file, output, compiled) ==
  IF compiled.raised # ""
  THEN [ran |-> TRUE, exit_code |-> 1, error |-> compiled.raised, message |-> "Error"]
  ELSE [ran |-> TRUE, exit_code |-> 0, error |-> "",
        message |-> IF output # None THEN "Compiled" ELSE "JSON"]

\* The body of compile: a source that is not a Jsonnet file is refused with
\* sys.exit(1) (SystemExit passes `except Exception`); any exception of the
\* compilation is printed and exits 1.
CompileOutcome(source_file, output, compiled) ==
  IF ~is_jsonnet_file(source_file.suffix)
  THEN [ran |-> FALSE, exit_code |-> 1, error |-> "not a Jsonnet file", message |-> "Error"]
  ELSE IF compiled.raised # ""
  THEN [ran |-> TRUE, exit_code |-> 1, error |-> compiled.raised, message |-> "Error"]
  ELSE [ran |-> TRUE, exit_code |-> 0, error |-> "",
        message |-> IF output # None THEN "Compiled" ELSE "JSON"]

\* The files given to compile: templates, a file the evaluator rejects, JSON
\* files, a template named .JSONNET, and paths that do not exist.
CompileCommandSources ==
  {[suffix |-> sf, kind |-> "template", doc |-> MakeDoc(FALSE, JNull, TRUE, "A", {})] :
     sf \in {".jsonnet", ".libsonnet", ".JSONNET"}}
  \cup {[suffix |-> ".jsonnet", kind |-> "invalid", doc |-> EmptyDict],
        [suffix |-> ".json", kind |-> "dict", doc |-> MakeDoc(FALSE, JNull, TRUE, "A", {})],
        [suffix |-> ".jsonnet", kind |-> "missing", doc |-> EmptyDict],
        [suffix |-> ".json", kind |-> "missing", doc |-> EmptyDict]}

\* doggonet compile SOURCE [-o FILE]
compile ==
  /\ cmd = "idle"
  /\ \E src \in CompileCommandSources, output \in {None, "out.json"} :
     \E tc \in Toolchains(src) :
       LET o == [NoOpts EXCEPT !.output = output]
           compiled == compile_jsonnet(src, NoneArg, NoneArg, tc.tools, tc.ev)
           out == CompileOutcome(src, output, compiled)
       IN IF ~PathExists(src)
          THEN UsageError("compile", src)
          ELSE DoneLoaded("compile", src, o, NoEnv, NoClient, <<>>, out.exit_code, out.error,
                          out.message, <<>>, remote, IF out.ran THEN compiled ELSE NotLoaded)

\* The exception the body of view meets on what was loaded, "" if none:
\* .get on a value that is no mapping, len() of a number or null.
ViewError(ld) ==
  IF ld.kind # "dict" THEN "AttributeError"
  ELSE IF "widgets" \notin DOMAIN ld.doc THEN ""
  ELSE IF ~Iterable(ld.doc["widgets"]) THEN "TypeError"
  ELSE IF \E i \in 1..Len(IterItems(ld.doc["widgets"])) :
            \/ IterItems(ld.doc["widgets"])[i].t # "dict"
            \/ /\ "definition" \in DOMAIN IterItems(ld.doc["widgets"])[i].fields
               /\ IterItems(ld.doc["widgets"])[i].fields["definition"].t # "dict"
  THEN "AttributeError"
  ELSE ""

\* The files given to view: a JSON dashboard for every widgets value, a
\* dashboard without widgets, a template, a JSON list, a file that does not
\* parse, and a path that does not exist.
ViewSources ==
  {[suffix |-> ".json", kind |-> "dict", doc |-> ("title" :> JStr("A")) @@ ("widgets" :> w)] :
     w \in WidgetsChoices}
  \cup {[suffix |-> sf, kind |-> "template", doc |-> MakeDoc(FALSE, JNull, TRUE, "A", {})] :
          sf \in {".jsonnet", ".json"}}
  \cup {[suffix |-> ".json", kind |-> k, doc |-> EmptyDict] : k \in {"non_dict", "invalid", "missing"}}

\* doggonet view SOURCE
view ==
  /\ cmd = "idle"
  /\ \E src \in ViewSources : \E tc \in PushToolchains(src) :
       LET ld == load_dashboard(src, tc.tools, tc.ev)
           err == IF ld.raised # "" THEN ld.raised ELSE ViewError(ld)
       IN IF ~PathExists(src)
          THEN UsageError("view", src)
          ELSE DoneLoaded("view", src, NoOpts, NoEnv, NoClient, <<>>,
                          IF err = "" THEN 0 ELSE 1, err,
                          IF err = "" THEN "Preview" ELSE "Error", <<>>, remote, ld)

\* ------------------------------------------------- the client as a library

\* The client of tests/unit/test_client.py.
TestClient == DatadogDashboardClient("test_key", "test_app", "datadoghq.com", NoEnv)

\* The constructor arguments of that client.
TestOpts == [NoOpts EXCEPT !.api_key = "test_key", !.app_key = "test_app", !.site = "datadoghq.com"]

\* DatadogDashboardClient(api_key=..., app_key=..., site=...) under an environment.
new_client ==
  /\ cmd = "idle"
  /\ \E api_key \in {None, "custom_api"}, app_key \in {None, "custom_app"},
        site \in {None, "us5.datadoghq.com"},
        e \in {Environ(a, b, c) : a \in {None, "env_api"}, b \in {None, "env_app"},
                                  c \in {None, "datadoghq.eu"}} :
       LET o == [NoOpts EXCEPT !.api_key = api_key, !.app_key = app_key, !.site = site]
           cl == DatadogDashboardClient(api_key, app_key, site, e)
       IN Done("new_client", NoSource, o, e, cl, <<>>, -1, cl.error, "", <<>>, remote)

\* client.dashboard_exists(id)
call_dashboard_exists ==
  /\ cmd = "idle"
  /\ \E id \in Ids : \E o1 \in Answers(remote, ExistsRequest(TestClient, id)) :
       Done("dashboard_exists", NoSource, TestOpts, NoEnv, TestClient,
            <<dashboard_exists(TestClient, id, o1)>>, -1, "", "", <<>>, remote)

\* client.create_dashboard(document)
call_create_dashboard ==
  /\ cmd = "idle"
  /\ \E d \in AllDocs : \E o1 \in Answers(remote, CreateRequest(TestClient, d)) :
       LET c == create_dashboard(TestClient, d, o1)
       IN Done("create_dashboard", NoSource, TestOpts, NoEnv, TestClient, <<c>>, -1, c.raised, "",
               <<>>, ServerApply(remote, c.request, o1))

\* client.update_dashboard(id, document)
call_update_dashboard ==
  /\ cmd = "idle"
  /\ \E id \in Ids, d \in AllDocs : \E o1 \in Answers(remote, UpdateRequest(TestClient, id, d)) :
       LET u == update_dashboard(TestClient, id, d, o1)
       IN Done("update_dashboard", NoSource, TestOpts, NoEnv, TestClient, <<u>>, -1, u.raised, "",
               <<>>, ServerApply(remote, u.request, o1))

\* client.list_metrics(search)
call_list_metrics ==
  /\ cmd = "idle"
  /\ \E search \in SearchChoices, names \in MetricLists,
        o1 \in {Response(200), Response(500), NetworkFailure} :
       LET l == list_metrics(TestClient, search, names, o1)
       IN DoneMetrics("list_metrics", NoSource, TestOpts, NoEnv, TestClient, <<l.call>>, -1,
                      l.call.raised, "", <<>>, remote, NotLoaded, l.metrics)

\* validate_dashboard_json(dashboard, filename)
validate ==
  /\ cmd = "idle"
  /\ \E d \in ValidateDocs :
       LET v == validate_dashboard_json(d, "example.jsonnet")
       IN Done("validate", [suffix |-> ".jsonnet", kind |-> "dict", doc |-> d], NoOpts, NoEnv,
               NoClient, <<>>, -1, v.raised, "", v.errors, remote)

\* python scripts/validate_examples.py
validate_examples ==
  /\ cmd = "idle"
  /\ \E dir_exists \in BOOLEAN, tools \in BatchMachines :
     \E files \in (IF dir_exists THEN ExampleLists ELSE {<<>>}) :
       LET m == main(dir_exists, files, tools)
       IN DoneBatch("validate_examples", NoSource, NoOpts, NoEnv, NoClient, <<>>, m.status, "",
                    m.message, m.all_errors, remote, NotLoaded, NoMetrics,
                    [dir_exists |-> dir_exists, tools |-> tools, files |-> files,
                     processed |-> m.processed, success_count |-> m.success_count])

\* load_dashboard(file_path)
call_load_dashboard ==
  /\ cmd = "idle"
  /\ \E src \in LoadSources : \E tc \in Toolchains(src) :
       LET ld == load_dashboard(src, tc.tools, tc.ev)
       IN DoneLoaded("load_dashboard", src, NoOpts, NoEnv, NoClient, <<>>, -1, ld.raised,
                     ld.message, <<>>, remote, ld)

\* compile_jsonnet(source_file, ext_vars, jpathdir)
call_compile_jsonnet ==
  /\ cmd = "idle"
  /\ \E src \in CompileSources, ext_vars \in ExtVarChoices, jpathdir \in JpathChoices :
     \E tc \in Toolchains(src) :
       LET ld == compile_jsonnet(src, ext_vars, jpathdir, tc.tools, tc.ev)
       IN DoneLoaded("compile_jsonnet", src,
                     [NoOpts EXCEPT !.ext_vars = ext_vars, !.jpathdir = jpathdir], NoEnv,
                     NoClient, <<>>, -1, ld.raised, ld.message, <<>>, remote, ld)

\* The process ends; the next command starts a new one.
exit ==
  /\ cmd # "idle"
  /\ Done("idle", NoSource, NoOpts, NoEnv, NoClient, <<>>, -1, "", "", <<>>, remote)

Next ==
  \/ push
  \/ fetch
  \/ delete
  \/ list
  \/ compile
  \/ view
  \/ new_client
  \/ call_dashboard_exists
  \/ call_create_dashboard
  \/ call_update_dashboard
  \/ call_list_metrics
  \/ validate
  \/ validate_examples
  \/ call_load_dashboard
  \/ call_compile_jsonnet
  \/ exit

Spec == Init /\ [][Next]_vars

\* ------------------------------------------------------------ properties

\* The value the loader returned for the command's file.
Loaded == loaded

\* The document push loaded (a mapping).
LoadedDoc == Loaded.doc

Called(op) == \E i \in 1..Len(calls) : calls[i].op = op

\* A push that loaded a mapping and constructed its client.
PushReachedDecision == cmd = "push" /\ client.ok

\* dashboard_exists was called for the document's id and returned true.
ExistsReturnedTrue ==
  \E i \in 1..Len(calls) :
    /\ calls[i].op = "dashboard_exists"
    /\ calls[i].returned = "True"
    /\ "id" \in DOMAIN LoadedDoc
    /\ calls[i].id = PyStr(LoadedDoc["id"])

\* C1: a non-dry-run push (document loaded, client built) calls
\* update_dashboard iff the document has an id and dashboard_exists(id)
\* returned true; in every other case it calls create_dashboard.
C1_UpdateIffIdPresentAndExists ==
  (PushReachedDecision /\ ~opts.dry_run) =>
     /\ Called("update_dashboard") <=> ("id" \in DOMAIN LoadedDoc /\ ExistsReturnedTrue)
     /\ Called("create_dashboard") <=> ~("id" \in DOMAIN LoadedDoc /\ ExistsReturnedTrue)

\* A push of a document with an id whose existence check said yes: update was called.
C1_Witness ==
  /\ PushReachedDecision /\ ~opts.dry_run
  /\ "id" \in DOMAIN LoadedDoc
  /\ ExistsReturnedTrue
  /\ Called("update_dashboard")

\* The payload p carries document d without the server-managed keys and with
\* every other key unchanged.
StrippedPayload(p, d) ==
  /\ DOMAIN p \cap {"id", "created_at", "modified_at", "author_handle"} = {}
  /\ \A k \in DOMAIN d \ {"id", "created_at", "modified_at", "author_handle"} :
       k \in DOMAIN p /\ p[k] = d[k]
  /\ DOMAIN p \subseteq DOMAIN d

\* C2: the payload create_dashboard POSTs contains none of id, created_at,
\* modified_at, author_handle, whatever subset of them the document has,
\* and every other key of the document unchanged; push hands it the loaded
\* document.
C2_CreateStripsServerFields ==
  \A i \in 1..Len(calls) :
    calls[i].op = "create_dashboard" =>
      /\ calls[i].request.method = "POST"
      /\ calls[i].request.has_json
      /\ StrippedPayload(calls[i].request.json, calls[i].document)
      /\ cmd = "push" => calls[i].document = LoadedDoc

\* create_dashboard was handed a document with all four server-managed keys
\* and a title.
C2_Witness ==
  \E i \in 1..Len(calls) :
    /\ calls[i].op = "create_dashboard"
    /\ {"id", "created_at", "modified_at", "author_handle", "title"} \subseteq DOMAIN calls[i].document
    /\ DOMAIN calls[i].request.json = {"title"}

\* C3: the payload update_dashboard(id, document) PUTs contains none of the
\* four server-managed keys and every other key unchanged, and the request
\* goes to the single-dashboard endpoint of the id argument, not of an id
\* inside the document.
C3_UpdateStripsAndTargetsIdArgument ==
  \A i \in 1..Len(calls) :
    calls[i].op = "update_dashboard" =>
      /\ calls[i].request.method = "PUT"
      /\ calls[i].request.has_json
      /\ StrippedPayload(calls[i].request.json, calls[i].document)
      /\ calls[i].request.url = client.base_url \o "/v1/dashboard/" \o calls[i].id

\* update_dashboard was called with an id argument that differs from the id
\* inside its document, which also has the other server-managed keys.
C3_Witness ==
  \E i \in 1..Len(calls) :
    /\ calls[i].op = "update_dashboard"
    /\ {"id", "modified_at", "author_handle"} \subseteq DOMAIN calls[i].document
    /\ calls[i].document["id"].t = "str"
    /\ calls[i].document["id"].s \in Ids \ {calls[i].id}
    /\ calls[i].outcome = Response(200)

\* C4: dashboard_exists never raises; it returns true iff the GET was
\* answered with status exactly 200, and false for every other status and
\* for a transport failure, so a 404 and a network failure give the caller
\* the same result.
C4_ExistsTrueIffStatus200 ==
  \A i \in 1..Len(calls) :
    calls[i].op = "dashboard_exists" =>
      /\ calls[i].raised = ""
      /\ calls[i].request.method = "GET"
      /\ calls[i].returned \in {"True", "False"}
      /\ calls[i].returned = "True" <=>
           (calls[i].outcome.kind = "response" /\ calls[i].outcome.status = 200)
      /\ calls[i].outcome \in {Response(404), NetworkFailure} =>
           (calls[i].returned = "False" /\ calls[i].body = EmptyDict)

\* dashboard_exists met a network failure and returned false.
C4_Witness ==
  \E i \in 1..Len(calls) :
    /\ calls[i].op = "dashboard_exists"
    /\ calls[i].outcome = NetworkFailure
    /\ calls[i].returned = "False"

\* C5: a push of a document without an id never calls update and makes no
\* lookup at all (matching is by id only, never by title); when it is not a
\* dry run, its one call is create_dashboard, whatever the remote side holds.
C5_NoIdAlwaysCreates ==
  (PushReachedDecision /\ "id" \notin DOMAIN LoadedDoc) =>
     /\ ~Called("update_dashboard")
     /\ ~Called("dashboard_exists")
     /\ ~opts.dry_run => (Len(calls) = 1 /\ calls[1].op = "create_dashboard")

\* A document without an id was pushed and created although a dashboard with
\* the same title was already stored.
C5_Witness ==
  /\ PushReachedDecision /\ ~opts.dry_run
  /\ "id" \notin DOMAIN LoadedDoc
  /\ "title" \in DOMAIN LoadedDoc
  /\ Len(calls) = 1 /\ calls[1].op = "create_dashboard" /\ calls[1].raised = ""
  /\ \E j \in Ids \ {calls[1].outcome.newid} : remote[j] = LoadedDoc["title"].s

\* A non-dry-run push of a document with an id whose existence check came
\* back false (the id is not stored, or the check failed).
PushIdNotFound ==
  /\ PushReachedDecision /\ ~opts.dry_run
  /\ Len(calls) >= 1
  /\ calls[1].op = "dashboard_exists"
  /\ calls[1].returned = "False"

\* C6 as stated: such a push reports no error and the document is created
\* as a new dashboard.
C6_Original ==
  PushIdNotFound =>
     /\ exit_code = 0
     /\ error = ""
     /\ Len(calls) = 2 /\ calls[2].op = "create_dashboard" /\ calls[2].raised = ""

\* C6 amended: the negative or failed existence check is itself never
\* reported; the push always goes on to call create_dashboard (never
\* update); an error is reported exactly when that create request fails, and
\* otherwise the document is stored as a new dashboard under the id the
\* service assigned.
C6_FailOpenProceedsToCreate ==
  PushIdNotFound =>
     /\ calls[1].raised = ""
     /\ Len(calls) = 2
     /\ calls[2].op = "create_dashboard"
     /\ calls[2].document = LoadedDoc
     /\ error = calls[2].raised
     /\ exit_code = (IF calls[2].raised = "" THEN 0 ELSE 1)
     /\ calls[2].raised = "" =>
          /\ message = "Created"
          /\ remote[calls[2].outcome.newid] = LoadedDoc["title"].s

\* The existence check of a pushed document failed with a network error and
\* the document was then created as a new dashboard.
C6_Witness ==
  /\ PushIdNotFound
  /\ calls[1].outcome = NetworkFailure
  /\ Len(calls) = 2 /\ calls[2].op = "create_dashboard" /\ calls[2].raised = ""
  /\ exit_code = 0

\* C7: a push with --dry-run calls neither create_dashboard nor
\* update_dashboard and leaves the remote dashboards unchanged; the only
\* request it may issue is the existence check of a document that has an id.
C7_DryRunWritesNothing ==
  [][(cmd' = "push" /\ opts'.dry_run) =>
       /\ remote' = remote
       /\ Len(calls') <= 1
       /\ \A i \in 1..Len(calls') :
            /\ calls'[i].op = "dashboard_exists"
            /\ calls'[i].request.method = "GET"
            /\ "id" \in DOMAIN loaded'.doc]_vars

\* A dry run found the document's id stored remotely and only said so.
C7_Witness ==
  /\ cmd = "push" /\ opts.dry_run
  /\ Len(calls) = 1 /\ calls[1].returned = "True"
  /\ message = "Would UPDATE"
  /\ exit_code = 0

\* A key is unresolved: neither the parameter nor the environment has it.
KeyUnresolved ==
  \/ (opts.api_key = None /\ env.DD_API_KEY = None)
  \/ (opts.app_key = None /\ env.DD_APP_KEY = None)

\* C8: when the API key or the application key cannot be resolved (either
\* one), constructing the client fails with the missing-credentials error
\* and the command (push, fetch, delete, list), once click has accepted its
\* command line, has issued no request.
C8_MissingCredentialsBeforeAnyRequest ==
  /\ (cmd \in {"push", "fetch", "delete", "list"} /\ error # "UsageError" /\ KeyUnresolved) =>
        /\ calls = <<>>
        /\ exit_code = 1
        /\ (cmd = "push" => Loaded.raised = "" /\ Loaded.kind = "dict") =>
             (~client.ok /\ error = "MissingCredentialsError")
  /\ (cmd = "new_client" /\ KeyUnresolved) =>
        (~client.ok /\ error = "MissingCredentialsError" /\ calls = <<>>)

\* A push whose file loaded, with the API key resolved and the application
\* key missing, ended with the missing-credentials error.
C8_Witness ==
  /\ cmd = "push"
  /\ Loaded.raised = "" /\ Loaded.kind = "dict"
  /\ opts.api_key # None
  /\ opts.app_key = None /\ env.DD_APP_KEY = None
  /\ error = "MissingCredentialsError"
  /\ exit_code = 1

\* C9: each credential is the explicit argument when there is one and the
\* environment's value only otherwise; the site is the argument, else
\* DD_SITE, else datadoghq.com, whatever the keys; the base URL is
\* https://api.<site>/api.
C9_CredentialResolutionOrder ==
  client.ok =>
     /\ cmd # "idle"
     /\ opts.api_key # None => client.api_key = opts.api_key
     /\ opts.api_key = None => client.api_key = env.DD_API_KEY
     /\ opts.app_key # None => client.app_key = opts.app_key
     /\ opts.app_key = None => client.app_key = env.DD_APP_KEY
     /\ opts.site # None => client.site = opts.site
     /\ (opts.site = None /\ env.DD_SITE # None) => client.site = env.DD_SITE
     /\ (opts.site = None /\ env.DD_SITE = None) => client.site = "datadoghq.com"
     /\ client.base_url = "https://api." \o client.site \o "/api"

\* A client built with an explicit API key although the environment has one
\* too, the application key and the site coming from the environment.
C9_Witness ==
  /\ cmd = "new_client" /\ client.ok
  /\ opts.api_key = "custom_api" /\ env.DD_API_KEY = "env_api" /\ client.api_key = "custom_api"
  /\ opts.app_key = None /\ client.app_key = "env_app"
  /\ opts.site = None /\ client.site = "datadoghq.eu"
  /\ client.base_url = "https://api.datadoghq.eu/api"

\* C10: validate_dashboard_json never raises: for every document, also one
\* whose widgets value is not a sequence, it returns a list of errors.
C10_ValidateNeverRaises ==
  cmd = "validate" => error = ""

\* The validator's message for a missing required field.
MissingFieldMessage(field) == "example.jsonnet: Missing required field '" \o field \o "'"

\* The document validated.
Validated == source.doc

\* C11: validating a document that lacks title, widgets and layout_type all
\* at once returns exactly three errors, one per missing field, and no other.
C11_AllThreeMissingGivesThreeErrors ==
  (cmd = "validate" /\ DOMAIN Validated \cap {"title", "widgets", "layout_type"} = {}) =>
     /\ error = ""
     /\ Len(report) = 3
     /\ {report[i] : i \in 1..3} = {MissingFieldMessage("title"), MissingFieldMessage("widgets"),
                                    MissingFieldMessage("layout_type")}

\* A document holding only a description was validated: three errors.
C11_Witness ==
  /\ cmd = "validate"
  /\ DOMAIN Validated = {"description"}
  /\ Len(report) = 3

\* The elements of the validated document's widgets value, in order.
ValidatedWidgets ==
  IF "widgets" \in DOMAIN Validated THEN IterItems(Validated["widgets"]) ELSE <<>>

\* The error the element at index i (from 0) calls for, "" if it is well formed.
WidgetMessage(i) ==
  LET widget == ValidatedWidgets[i + 1]
  IN IF widget.t # "dict"
     THEN "example.jsonnet: Widget " \o ToString(i) \o " is not a dictionary"
     ELSE IF "definition" \notin DOMAIN widget.fields
     THEN "example.jsonnet: Widget " \o ToString(i) \o " missing 'definition'"
     ELSE ""

\* The indices of the malformed elements.
MalformedWidgets == {i \in 0..(Len(ValidatedWidgets) - 1) : WidgetMessage(i) # ""}

\* What each check reports when it is made alone, taken together.
ExpectedErrors ==
  {MissingFieldMessage(f) : f \in {"title", "widgets", "layout_type"} \ DOMAIN Validated}
  \cup (IF "widgets" \in DOMAIN Validated /\ Validated["widgets"].t # "list"
        THEN {"example.jsonnet: 'widgets' must be a list"} ELSE {})
  \cup (IF "layout_type" \in DOMAIN Validated
           /\ Validated["layout_type"] \notin {JStr("ordered"), JStr("grid")}
        THEN {"example.jsonnet: 'layout_type' must be 'ordered' or 'grid'"} ELSE {})
  \cup {WidgetMessage(i) : i \in MalformedWidgets}

\* The errors returned, as a set.
Reported == {report[i] : i \in 1..Len(report)}

\* C12: validation does not short-circuit: the returned list holds one error
\* for each failing check (missing title, missing widgets, missing
\* layout_type, widgets not a sequence, layout_type not ordered or grid, each
\* malformed widget), so the errors are the union of what each check reports
\* alone.
C12_ErrorsAreUnionOfChecks ==
  cmd = "validate" =>
     /\ error = ""
     /\ Reported = ExpectedErrors
     /\ Len(report) = Cardinality(ExpectedErrors)

\* Whenever validation returns a list, that list is the union of the checks.
ReturnedErrorsAreUnionOfChecks ==
  (cmd = "validate" /\ error = "") =>
     (Reported = ExpectedErrors /\ Len(report) = Cardinality(ExpectedErrors))

\* Every element of widgets is a mapping with a definition key.
EveryWidgetHasDefinition ==
  /\ "widgets" \in DOMAIN Validated
  /\ Validated["widgets"].t = "list"
  /\ \A i \in 1..Len(Validated["widgets"].items) :
       /\ Validated["widgets"].items[i].t = "dict"
       /\ "definition" \in DOMAIN Validated["widgets"].items[i].fields

\* Every definition is a mapping with a type key.
EveryDefinitionHasType ==
  \A i \in 1..Len(Validated["widgets"].items) :
    LET definition == Validated["widgets"].items[i].fields["definition"]
    IN definition.t = "dict" /\ "type" \in DOMAIN definition.fields

\* C13: validate returns an empty error list only if every element
\* of widgets is a mapping containing a definition key whose value contains
\* a type key.
C13_EmptyOnlyIfDefinitionWithType ==
  (cmd = "validate" /\ error = "" /\ report = <<>>) =>
     (EveryWidgetHasDefinition /\ EveryDefinitionHasType)

\* What the validator does enforce: an empty error list is returned only if
\* widgets is a list whose every element is a mapping with a definition key.
EmptyReportImpliesDefinitions ==
  (cmd = "validate" /\ error = "" /\ report = <<>>) => EveryWidgetHasDefinition

\* The errors of the widget loop: those the other checks do not explain.
WidgetErrorsReported ==
  {report[i] : i \in {j \in 1..Len(report) :
      report[j] \notin ({MissingFieldMessage(f) : f \in {"title", "widgets", "layout_type"}}
                        \cup {"example.jsonnet: 'widgets' must be a list",
                              "example.jsonnet: 'layout_type' must be 'ordered' or 'grid'"})}}

\* The number of entries of the report that are widget errors.
WidgetErrorCount ==
  Cardinality({j \in 1..Len(report) : report[j] \in WidgetErrorsReported})

\* C14: widget validation is shallow and per index: each top-level element of
\* widgets yields at most one error, naming its index (not a mapping, else
\* no definition); widgets nested in a group never yield one; the number of
\* widget errors is the number of malformed top-level elements.
C14_WidgetErrorsShallowPerIndex ==
  cmd = "validate" =>
     /\ WidgetErrorsReported = {WidgetMessage(i) : i \in MalformedWidgets}
     /\ WidgetErrorCount = Cardinality(MalformedWidgets)

\* A group holding a malformed widget and a top-level element that is not a
\* mapping were validated: the only widget error names the latter.
C14_Witness ==
  /\ cmd = "validate"
  /\ "widgets" \in DOMAIN Validated /\ Validated["widgets"].t = "list"
  /\ Len(Validated["widgets"].items) = 2
  /\ Validated["widgets"].items[1].t = "dict"
  /\ "definition" \in DOMAIN Validated["widgets"].items[1].fields
  /\ "widgets" \in DOMAIN Validated["widgets"].items[1].fields["definition"].fields
  /\ Validated["widgets"].items[2].t = "str"
  /\ WidgetErrorsReported = {"example.jsonnet: Widget 1 is not a dictionary"}
  /\ WidgetErrorCount = 1

\* The command's file has one of the two template suffixes.
TemplateSuffix == source.suffix = ".jsonnet" \/ source.suffix = ".libsonnet"

\* C15: load_dashboard, once called on an existing file, dispatches on the
\* file's suffix alone: a path whose
\* suffix is exactly .jsonnet or .libsonnet goes to the template compiler and
\* never to the JSON parser; every other path is parsed as JSON and never
\* compiled, failing with a parse error when it is not valid JSON; the
\* returned document is what was parsed or evaluated, nothing added, removed
\* or validated.
C15_LoaderDispatchesOnSuffix ==
  (cmd \in {"load_dashboard", "push"} /\ PathExists(source)) =>
     /\ TemplateSuffix => loaded.parser = "compiler"
     /\ ~TemplateSuffix =>
          /\ loaded.parser = "json"
          /\ loaded.evaluator = "none" /\ loaded.evaluation = NoEvaluation /\ loaded.argv = <<>>
          /\ source.kind \in {"invalid", "template"} =>
               (loaded.raised = "JSONDecodeError" /\ loaded.kind = "none")
          /\ source.kind \in {"dict", "non_dict"} =>
               (loaded.raised = "" /\ loaded.kind = source.kind /\ loaded.doc = source.doc)
     /\ (TemplateSuffix /\ loaded.raised = "") =>
          (loaded.kind = loaded.evaluation.kind /\ loaded.doc = loaded.evaluation.doc)

\* A template in a file named .JSONNET was handed to the JSON parser and
\* failed to parse, on a machine that has an evaluator.
C15_Witness ==
  /\ cmd = "load_dashboard"
  /\ source.suffix = ".JSONNET" /\ source.kind = "template"
  /\ loaded.parser = "json"
  /\ loaded.raised = "JSONDecodeError"

\* The arguments that follow each occurrence of flag on a command line.
RECURSIVE FlagValues(_, _)
FlagValues(argv, flag) ==
  IF Len(argv) < 2 THEN <<>>
  ELSE IF Head(argv) = flag THEN <<argv[2]>> \o FlagValues(Tail(Tail(argv)), flag)
  ELSE FlagValues(Tail(argv), flag)

\* A compilation took place: compile_jsonnet was called, directly or by the loader.
Compiled == loaded.parser = "compiler"

\* The caller's external variables, each as key=value.
ExtVarStrings ==
  [i \in 1..Len(OrEmpty(opts.ext_vars)) |->
     OrEmpty(opts.ext_vars)[i][1] \o "=" \o OrEmpty(opts.ext_vars)[i][2]]

\* C16: compile_jsonnet uses the in-process evaluator whenever it can be
\* imported, and invokes the external jsonnet executable only when it cannot;
\* the external command line is `jsonnet <file>` followed by one --ext-str
\* key=value pair per external variable and one -J path per include path,
\* and nothing else.
C16_InProcessFirstThenExternalFlags ==
  Compiled =>
     /\ loaded.tools.in_process =>
          /\ loaded.evaluator = "_jsonnet"
          /\ loaded.argv = <<>>
          /\ loaded.ext_vars = OrEmpty(opts.ext_vars)
     /\ loaded.evaluator = "jsonnet" <=> (~loaded.tools.in_process /\ loaded.tools.executable)
     /\ ~loaded.tools.in_process =>
          /\ Len(loaded.argv) = 2 + 2 * Len(ExtVarStrings)
                                  + 2 * Len(IncludePaths(opts.jpathdir, loaded.tools))
          /\ loaded.argv[1] = "jsonnet"
          /\ loaded.argv[2] = PathOf(source)
          /\ FlagValues(loaded.argv, "--ext-str") = ExtVarStrings
          /\ FlagValues(loaded.argv, "-J") = IncludePaths(opts.jpathdir, loaded.tools)

\* Without the in-process evaluator a template was compiled by the
\* executable, given two external variables and an include path.
C16_Witness ==
  /\ cmd = "compile_jsonnet"
  /\ ~loaded.tools.in_process /\ loaded.evaluator = "jsonnet"
  /\ loaded.tools.package_parent
  /\ opts.ext_vars = Given(<<<<"env", "prod">>, <<"region", "us-west">>>>)
  /\ opts.jpathdir = Given(<<"/project/lib">>)
  /\ loaded.argv = <<"jsonnet", "dashboard.jsonnet", "--ext-str", "env=prod",
                     "--ext-str", "region=us-west", "-J", "/site-packages", "-J", "/project/lib">>
  /\ loaded.raised = ""

\* The evaluator used produced output that is not JSON.
EvaluatorOutputNotJson ==
  Compiled /\ loaded.evaluation.status = "output" /\ ~loaded.evaluation.valid

\* C17: whenever the evaluator's output is not valid JSON, compile_jsonnet
\* fails with the malformed-output error ('Invalid JSON output from
\* Jsonnet'), whichever evaluator produced the output, and returns no
\* document.
C17_MalformedOutputErrorFromEitherEvaluator ==
  EvaluatorOutputNotJson =>
     /\ loaded.raised = "RuntimeError"
     /\ loaded.message = "Invalid JSON output from Jsonnet: " \o json_loads(BadOutput).message
     /\ loaded.kind = "none" /\ loaded.doc = EmptyDict

\* What holds of both evaluators: output that is not JSON is never returned
\* as a document, and the external evaluator's is reported as malformed output.
NonJsonOutputNeverReturned ==
  EvaluatorOutputNotJson =>
     /\ loaded.raised # ""
     /\ loaded.kind = "none" /\ loaded.doc = EmptyDict
     /\ loaded.evaluator = "jsonnet" =>
          (loaded.raised = "RuntimeError"
           /\ loaded.message = "Invalid JSON output from Jsonnet: " \o json_loads(BadOutput).message)

\* compile_jsonnet raised the compiler-not-found error, whose message names
\* both ways of obtaining an evaluator.
RaisedCompilerNotFound ==
  /\ loaded.raised = "RuntimeError"
  /\ loaded.message = "Jsonnet compiler not found. Install with: pip install jsonnet\n"
                      \o "Or install the jsonnet CLI from: https://github.com/google/go-jsonnet"

\* C18: compile_jsonnet fails with the compiler-not-found error exactly when
\* neither the in-process evaluator nor the external executable is
\* available; it is never raised when one of them is, and then no evaluator
\* ran and no document is returned.
C18_CompilerNotFoundIffNoEvaluator ==
  Compiled =>
     /\ RaisedCompilerNotFound <=> (~loaded.tools.in_process /\ ~loaded.tools.executable)
     /\ RaisedCompilerNotFound =>
          (loaded.evaluator = "none" /\ loaded.kind = "none" /\ loaded.doc = EmptyDict)

\* A template was compiled on a machine with neither evaluator.
C18_Witness ==
  /\ cmd = "compile_jsonnet"
  /\ source.kind = "template"
  /\ ~loaded.tools.in_process /\ ~loaded.tools.executable
  /\ RaisedCompilerNotFound
  /\ error = "RuntimeError"

\* The evaluator used reported a syntax or evaluation error.
EvaluatorReportedError == Compiled /\ loaded.evaluation.status = "error"

\* C19: when the evaluator (in-process or external) reports a syntax or
\* evaluation error, compile_jsonnet fails with a RuntimeError whose message
\* carries the evaluator's diagnostic text unchanged (as the whole message
\* in-process, after 'Jsonnet compilation failed:' for the executable), and
\* returns no document.
C19_DiagnosticPassedThrough ==
  EvaluatorReportedError =>
     /\ loaded.raised = "RuntimeError"
     /\ loaded.kind = "none" /\ loaded.doc = EmptyDict
     /\ loaded.evaluator \in {"_jsonnet", "jsonnet"}
     /\ loaded.evaluator = "_jsonnet" => loaded.message = loaded.evaluation.diag
     /\ loaded.evaluator = "jsonnet" =>
          loaded.message = "Jsonnet compilation failed:\n" \o loaded.evaluation.diag

\* The executable rejected a file with a static error and compile_jsonnet
\* raised with that text.
C19_Witness ==
  /\ cmd = "compile_jsonnet"
  /\ source.kind = "invalid"
  /\ loaded.evaluator = "jsonnet"
  /\ loaded.evaluation.diag = "STATIC ERROR: syntax error"
  /\ loaded.message = "Jsonnet compilation failed:\nSTATIC ERROR: syntax error"
  /\ error = "RuntimeError"

\* The include paths the evaluator was handed: the jpathdir argument of the
\* in-process call, or the -J flags of the command line.
HandedPaths ==
  IF loaded.evaluator = "_jsonnet" THEN loaded.jpathdir ELSE FlagValues(loaded.argv, "-J")

\* The paths the caller supplied.
CallerPaths == OrEmpty(opts.jpathdir)

\* xs occurs in ys as a subsequence: every element, in the same order.
RECURSIVE IsSubsequence(_, _)
IsSubsequence(xs, ys) ==
  IF xs = <<>> THEN TRUE
  ELSE IF ys = <<>> THEN FALSE
  ELSE IF Head(xs) = Head(ys) THEN IsSubsequence(Tail(xs), Tail(ys))
  ELSE IsSubsequence(xs, Tail(ys))

\* An evaluator was handed the file: compile_jsonnet found one to use.
Evaluated == Compiled /\ loaded.evaluator # "none"

\* C20 as stated: the include paths handed to the evaluator contain the
\* implicit library directory (when it exists) exactly once and every
\* caller-supplied path in the caller's order; the caller's list is not
\* modified.
C20_Original ==
  Evaluated =>
     /\ loaded.tools.package_parent => Count(parent_dir, HandedPaths) = 1
     /\ IsSubsequence(CallerPaths, HandedPaths)
     /\ loaded.caller_jpathdir = opts.jpathdir

\* C20 amended: the include paths handed to the evaluator are the caller's
\* paths in the caller's order, preceded by the implicit library directory
\* when it exists and the caller did not supply it; so the implicit
\* directory is present whenever it exists, and as often as in the caller's
\* list when the caller supplied it (more than once if the caller repeats
\* it); the caller's list is not modified.
C20_ImplicitPathAddedOnlyIfAbsent ==
  Evaluated =>
     /\ loaded.tools.package_parent =>
          Count(parent_dir, HandedPaths) =
             (IF Count(parent_dir, CallerPaths) = 0 THEN 1 ELSE Count(parent_dir, CallerPaths))
     /\ IsSubsequence(CallerPaths, HandedPaths)
     /\ Len(HandedPaths) =
          Len(CallerPaths)
          + (IF loaded.tools.package_parent /\ Count(parent_dir, CallerPaths) = 0 THEN 1 ELSE 0)
     /\ loaded.caller_jpathdir = opts.jpathdir

\* The caller supplied the implicit directory itself, after another path:
\* the in-process evaluator was handed the caller's two paths and no more.
C20_Witness ==
  /\ cmd = "compile_jsonnet"
  /\ loaded.tools.package_parent /\ loaded.evaluator = "_jsonnet"
  /\ opts.jpathdir = Given(<<"/project/lib", parent_dir>>)
  /\ HandedPaths = <<"/project/lib", parent_dir>>
  /\ loaded.raised = ""

\* The six commands of the command line.
CliCommands == {"push", "fetch", "delete", "list", "compile", "view"}

\* A client operation of the command raised.
RemoteFailure == \E i \in 1..Len(calls) : calls[i].raised # ""

\* Exit 0 exactly when no error was reported and exit 1 for every error the
\* command meets: a load or compile failure, missing credentials, a failed
\* remote operation, a compile of a source that is no Jsonnet file.
ExitCodeReflectsErrors ==
  /\ exit_code \in {0, 1}
  /\ exit_code = 0 <=> error = ""
  /\ error # "" => message = "Error"
  /\ loaded.raised # "" => exit_code = 1
  /\ RemoteFailure => exit_code = 1
  /\ (cmd \in {"push", "fetch", "delete", "list"} /\ KeyUnresolved) => exit_code = 1
  /\ (cmd = "compile" /\ ~TemplateSuffix) => exit_code = 1

\* C21 as stated: every command exits 0 when it completes without an error
\* and 1 whenever an error is reported; no error is swallowed into exit 0.
C21_Original ==
  cmd \in CliCommands => ExitCodeReflectsErrors

\* C21 amended: once click has accepted the command line, every command
\* exits 0 when it completes without an error and 1 whenever an error is
\* reported; a SOURCE path that does not exist (push, compile, view) is
\* rejected by click before the command runs, with a usage error and exit
\* status 2, nothing loaded and no request issued.
C21_ExitCodes ==
  cmd \in CliCommands =>
     /\ PathExists(source) => ExitCodeReflectsErrors
     /\ ~PathExists(source) =>
          (exit_code = 2 /\ error = "UsageError" /\ loaded = NotLoaded /\ calls = <<>>)
     /\ exit_code = 2 => ~PathExists(source)

\* compile was given an existing JSON file: it refused it and exited 1
\* without compiling.
C21_Witness ==
  /\ cmd = "compile"
  /\ source.suffix = ".json" /\ source.kind = "dict"
  /\ loaded = NotLoaded
  /\ message = "Error"
  /\ exit_code = 1

\* search occurs in name at some offset, character for character.
Occurs(search, name) ==
  \E k \in 0..Len(name) :
    /\ k + Len(search) <= Len(name)
    /\ \A j \in 1..Len(search) : name[k + j] = search[j]

\* The name is one list_metrics must return.
Wanted(name) == ~metrics.search.given \/ Occurs(metrics.search.items, name)

\* C22: list_metrics returns the service's metric names sorted ascending;
\* with a search it returns exactly the names the service sent that contain
\* the search string as a case-sensitive substring, none other and none
\* missing, still sorted.
C22_MetricsFilteredAndSorted ==
  (cmd = "list_metrics" /\ error = "") =>
     /\ \A i \in 1..Len(metrics.result) : \A j \in i..Len(metrics.result) :
          StrLeq(metrics.result[i], metrics.result[j])
     /\ \A name \in MetricNames :
          Count(name, metrics.result) =
             (IF Wanted(name) THEN Count(name, metrics.server) ELSE 0)
     /\ \A i \in 1..Len(metrics.result) : metrics.result[i] \in MetricNames

\* The service sent "sa", "Sa", "as" and the search was "s": "as" and "sa"
\* came back, in that order.
C22_Witness ==
  /\ cmd = "list_metrics" /\ error = ""
  /\ metrics.search = Given(<<"s">>)
  /\ metrics.server = <<<<"s", "a">>, <<"S", "a">>, <<"a", "s">>>>
  /\ metrics.result = <<<<"a", "s">>, <<"s", "a">>>>

\* The i-th example file compiled and its document has no validation error.
CompiledAndValid(i) ==
  /\ batch.tools.in_process \/ batch.tools.executable
  /\ batch.files[i].ev.status = "output" /\ batch.files[i].ev.valid
  /\ validate_dashboard_json(batch.files[i].ev.doc, "example.jsonnet") =
       [raised |-> "", errors |-> <<>>]
  /\ batch.files[i].ev.kind = "dict"

\* Every file was processed, a file counts as a success only if it compiled
\* and produced no validation error, and the status is 0 iff every file is a
\* success.
BatchTally ==
  /\ Len(batch.processed) = Len(batch.files)
  /\ \A i \in 1..Len(batch.files) : batch.processed[i] = "success" <=> CompiledAndValid(i)
  /\ batch.success_count = Cardinality({i \in 1..Len(batch.files) : CompiledAndValid(i)})
  /\ exit_code = 0 <=> batch.success_count = Len(batch.files)

\* C23 as stated: batch validation processes every .jsonnet file whatever
\* happened to earlier ones, counts a file as a success only if it compiled
\* and produced no validation error, and returns 0 iff the success count is
\* the number of files (also when there are no files).
C23_Original ==
  cmd = "validate_examples" => BatchTally

\* C23 amended: when the examples directory exists, batch validation
\* processes every .jsonnet file whatever happened to earlier ones, counts a
\* file as a success only if it compiled and produced no validation error,
\* and returns 0 iff the success count is the number of files (also when
\* there are no files); when the directory does not exist it returns 1,
\* although there is no file and nothing failed.
C23_BatchContinuesAndTallies ==
  cmd = "validate_examples" =>
     /\ batch.dir_exists => BatchTally
     /\ ~batch.dir_exists =>
          (exit_code = 1 /\ batch.files = <<>> /\ batch.processed = <<>> /\ report = <<>>)

\* The first file did not compile and the second was still validated and
\* counted: one success of two, status 1.
C23_Witness ==
  /\ cmd = "validate_examples"
  /\ Len(batch.files) = 2
  /\ batch.files[1].source.kind = "invalid"
  /\ batch.processed = <<"exception", "success">>
  /\ batch.success_count = 1
  /\ exit_code = 1

\* The positions in calls of the operations named.
CallsOf(ops) == {i \in 1..Len(calls) : calls[i].op \in ops}

\* C24: a non-dry-run push that loaded its document and built its client
\* issues at most one existence check and at most one write (create or
\* update, never both), the existence check before the write, and no
\* existence check at all for a document without an id; nothing is retried.
C24_PushRequestsAtMostOnceInOrder ==
  (PushReachedDecision /\ ~opts.dry_run) =>
     /\ Cardinality(CallsOf({"dashboard_exists"})) <= 1
     /\ Cardinality(CallsOf({"create_dashboard", "update_dashboard"})) <= 1
     /\ \A i \in CallsOf({"dashboard_exists"}) :
          \A j \in CallsOf({"create_dashboard", "update_dashboard"}) : i < j
     /\ "id" \notin DOMAIN LoadedDoc => CallsOf({"dashboard_exists"}) = {}
     /\ CallsOf({"dashboard_exists", "create_dashboard", "update_dashboard"}) = 1..Len(calls)
     /\ Len(Requests) = Len(calls)

\* The id was found, the update failed, and the push ended there: one check,
\* then one write, no second attempt.
C24_Witness ==
  /\ PushReachedDecision /\ ~opts.dry_run
  /\ Len(calls) = 2
  /\ calls[1].op = "dashboard_exists" /\ calls[1].returned = "True"
  /\ calls[2].op = "update_dashboard" /\ calls[2].raised # ""
  /\ exit_code = 1

\* A delete command whose client was built.
DeleteRan == cmd = "delete" /\ client.ok

\* C25: delete issues the DELETE request only after get_dashboard for the
\* same id has succeeded and only with --yes or a confirmed prompt; when the
\* fetch fails or the user declines, no DELETE is issued and the remote
\* dashboards are unchanged, a declined prompt exiting 0 and a failed fetch 1.
C25_DeleteOnlyAfterFetchAndConfirmation ==
  [][(cmd' = "delete" /\ client'.ok) =>
       /\ Len(calls') >= 1
       /\ calls'[1].op = "get_dashboard" /\ calls'[1].id = opts'.dashboard_id
       /\ \A i \in 1..Len(calls') :
            calls'[i].op = "delete_dashboard" =>
               /\ i = 2 /\ Len(calls') = 2
               /\ calls'[1].raised = ""
               /\ calls'[i].id = calls'[1].id
               /\ calls'[i].request.method = "DELETE"
               /\ calls'[i].request.url = client'.base_url \o "/v1/dashboard/" \o opts'.dashboard_id
               /\ opts'.yes \/ opts'.confirm
       /\ calls'[1].raised # "" =>
            (Len(calls') = 1 /\ remote' = remote /\ exit_code' = 1)
       /\ (calls'[1].raised = "" /\ ~opts'.yes /\ ~opts'.confirm) =>
            (Len(calls') = 1 /\ remote' = remote /\ exit_code' = 0 /\ message' = "Cancelled")
       /\ remote' # remote => (Len(calls') = 2 /\ calls'[2].raised = "")]_vars

\* The dashboard was fetched, the user declined, and it is still stored.
C25_Witness ==
  /\ DeleteRan
  /\ ~opts.yes /\ ~opts.confirm
  /\ Len(calls) = 1 /\ calls[1].op = "get_dashboard" /\ calls[1].raised = ""
  /\ remote[opts.dashboard_id] # NoDash
  /\ message = "Cancelled"
  /\ exit_code = 0

====
